---- MODULE Spec2Model ----
(***************************************************************************)
(* Model of Dune::EclipseGridInspector (common/EclipseGridInspector.cpp).  *)
(*                                                                         *)
(* The inspector holds a reference to a parser (the grid data source) and  *)
(* the logical grid size read from it at construction.  Every query        *)
(* re-fetches COORD / ZCORN from the parser.                               *)
(*                                                                         *)
(* Doubles are modelled by integers: every array element of the model is   *)
(* an integer, and the results that the code obtains with a division or a  *)
(* constant factor are kept as exact fractions:                            *)
(*   - cellVolumeVerticalPillars returns <<v8>> where the volume is v8/8   *)
(*     (0.5 * cross product times 0.25 * sum of the z differences);        *)
(*   - cellDips returns <<xn, xd, yn, yd>> for the dips xn/xd and yn/yd.   *)
(* A read outside an array and a floating point division by zero followed  *)
(* by a conversion to int are undefined behaviour: the call then ends in   *)
(* any of UBOutcomes.                                                      *)
(***************************************************************************)
EXTENDS Integers, Sequences, FiniteSets, TLC

VARIABLES parser, status, logical_gridsize, res

vars == <<parser, status, logical_gridsize, res>>

(***************************************************************************)
(* Bounds of the model.                                                    *)
(***************************************************************************)
MaxDim == 2
MaxTilt == 1

\* stands for DBL_MAX: larger than every coordinate of the model
DBL_MAX == 1000000

Dims == (-1)..MaxDim
PosDims == 1..MaxDim
CoordArgs == (-1)..MaxDim
IdxArgs == (-1)..(MaxDim * MaxDim * MaxDim)

Max0(x) == IF x < 0 THEN 0 ELSE x

(***************************************************************************)
(* C++ arithmetic.                                                         *)
(***************************************************************************)
Abs(x) == IF x < 0 THEN -x ELSE x

\* int(std::floor(double(a) / double(b))), b # 0
FloorDiv(a, b) == IF b > 0 THEN a \div b ELSE (-a) \div (-b)

\* a / b on ints (truncation toward zero), b # 0
TruncDiv(a, b) ==
    LET q == Abs(a) \div Abs(b)
    IN  IF (a < 0) # (b < 0) THEN -q ELSE q

\* v[idx] on a std::vector, 0-based; only used when InRange
At(v, idx) == v[idx + 1]
InRange(v, idx) == idx >= 0 /\ idx < Len(v)

UBOutcomes == {"crash", "garbage"}

\* what a call leaves behind: how it ended, the value returned, the arrays
\* fetched from the parser, the ZCORN offsets indexed, the logical
\* coordinates the call worked on
Result(outcome, value, fetched, offs, ijk) ==
    [outcome |-> outcome, value |-> value, fetched |-> fetched,
     offs |-> offs, ijk |-> ijk]

Thrown(outcome, fetched, ijk) == Result(outcome, <<>>, fetched, <<>>, ijk)

(***************************************************************************)
(* The parser: the keywords present and their values.                      *)
(***************************************************************************)
hasField(p, name) == name \in p.fields

hasFields(p, names) == \A n \in names : hasField(p, n)

getFloatingPointValue(p, name) == IF name = "COORD" THEN p.COORD ELSE p.ZCORN

(***************************************************************************)
(* Constructor.                                                            *)
(***************************************************************************)
CtorPrefersDIMENS(p) ==
    IF ~hasFields(p, {"COORD", "ZCORN"}) THEN [outcome |-> "MissingField", gs |-> <<>>]
    ELSE IF hasField(p, "DIMENS") THEN [outcome |-> "ok", gs |-> p.DIMENS]
    ELSE IF hasField(p, "SPECGRID") THEN [outcome |-> "ok", gs |-> p.SPECGRID]
    ELSE [outcome |-> "NoDimensions", gs |-> <<>>]

Ctor(p) ==
    IF ~hasFields(p, {"COORD", "ZCORN"}) THEN [outcome |-> "MissingField", gs |-> <<>>]
    ELSE IF hasField(p, "SPECGRID") THEN [outcome |-> "ok", gs |-> p.SPECGRID]
    ELSE IF hasField(p, "DIMENS") THEN [outcome |-> "ok", gs |-> p.DIMENS]
    ELSE [outcome |-> "NoDimensions", gs |-> <<>>]

(***************************************************************************)
(* checkLogicalCoords: "" when the coordinates pass.                       *)
(***************************************************************************)
checkLogicalCoords(gs, i, j, k) ==
    IF i < 0 \/ i >= gs[1] THEN "OutOfBounds1"
    ELSE IF j < 0 \/ j >= gs[2] THEN "OutOfBounds2"
    ELSE IF k < 0 \/ k >= gs[3] THEN "OutOfBounds3"
    ELSE ""

(***************************************************************************)
(* Size checks.                                                            *)
(***************************************************************************)
WrongCoordSize(gs, pillc) == 6 * ((gs[1] + 1) * (gs[2] + 1)) # Len(pillc)

WrongZcornSizeOnlyWhenLonger(gs, z) == 8 * (gs[1] * gs[2] * gs[3]) < Len(z)

WrongZcornSize(gs, z) == 8 * (gs[1] * gs[2] * gs[3]) # Len(z)

(***************************************************************************)
(* cellIdxToLogicalCoords.  Defined when nx # 0 and nx*ny # 0; otherwise   *)
(* the code converts the result of a division by zero to int.              *)
(***************************************************************************)
IdxConversionDefined(gs) == gs[1] # 0 /\ gs[1] * gs[2] # 0

cellIdxToLogicalCoords(gs, cell_idx) ==
    LET per == gs[1] * gs[2]
        h0 == (cell_idx + 1) - FloorDiv(cell_idx + 1, per) * gs[1] * gs[2]
        horIdx == IF h0 = 0 THEN per ELSE h0
        i0 == horIdx - FloorDiv(horIdx, gs[1]) * gs[1]
        i == IF i0 = 0 THEN gs[2] ELSE i0
        j == TruncDiv(horIdx - i, gs[1]) + 1
        k == TruncDiv((cell_idx + 1) - gs[1] * (j - 1) - 1, per) + 1
    IN  <<i - 1, j - 1, k - 1>>

(***************************************************************************)
(* The 8 ZCORN offsets of a cell, as cellZvals and as                      *)
(* cellVolumeVerticalPillars compute them.                                 *)
(***************************************************************************)
cellZvalsOffsetsRowStrideNy(gs, i, j, k) ==
    LET d0 == 1
        d1 == 2 * gs[2]
        d2 == 4 * gs[1] * gs[2]
        ix == 2 * (i * d0 + j * d1 + k * d2)
    IN  <<ix, ix + d0, ix + d1, ix + d1 + d0,
          ix + d2, ix + d2 + d0, ix + d2 + d1, ix + d2 + d1 + d0>>

cellZvalsOffsets(gs, i, j, k) ==
    LET d0 == 1
        d1 == 2 * gs[1]
        d2 == 4 * gs[1] * gs[2]
        ix == 2 * (i * d0 + j * d1 + k * d2)
    IN  <<ix, ix + d0, ix + d1, ix + d1 + d0,
          ix + d2, ix + d2 + d0, ix + d2 + d1, ix + d2 + d1 + d0>>

cellVolumeOffsets(gs, i, j, k) ==
    LET d0 == 1
        d1 == 2 * gs[1]
        d2 == 4 * gs[1] * gs[2]
        ix == 2 * (i * d0 + j * d1 + k * d2)
    IN  <<ix, ix + d0, ix + d1, ix + d1 + d0,
          ix + d2, ix + d2 + d0, ix + d2 + d1, ix + d2 + d1 + d0>>

AllInRange(v, offs) == \A n \in 1..Len(offs) : InRange(v, offs[n])

ReadAll(v, offs) == [n \in 1..Len(offs) |-> At(v, offs[n])]

(***************************************************************************)
(* cellZvals: no check of (i, j, k); fetches ZCORN, checks its size, reads *)
(* the 8 corner depths.  The result of a read outside ZCORN is in          *)
(* UBOutcomes, chosen by the action.                                       *)
(***************************************************************************)
cellZvals(p, gs, i, j, k) ==
    LET z == getFloatingPointValue(p, "ZCORN")
        offs == cellZvalsOffsets(gs, i, j, k)
    IN  IF WrongZcornSize(gs, z) THEN Thrown("WrongZcornSize", <<"ZCORN">>, <<i, j, k>>)
        ELSE IF ~AllInRange(z, offs) THEN Result("UB", <<>>, <<"ZCORN">>, offs, <<i, j, k>>)
        ELSE Result("ok", ReadAll(z, offs), <<"ZCORN">>, offs, <<i, j, k>>)

(***************************************************************************)
(* cellVolumeVerticalPillars(i, j, k).  Value: <<8 * volume>>.             *)
(***************************************************************************)
\* twice the base area: the 2d cross product of the diagonals
CrossDiagonalsSwapped(px, py) ==
    LET diag1 == <<px[4] - px[1], py[4] - py[1]>>
        diag2 == <<px[2] - px[3], py[2] - py[3]>>
    IN  diag1[1] * diag2[2] - diag1[2] * diag2[1]

CrossDiagonals(px, py) ==
    LET diag1 == <<px[4] - px[1], py[4] - py[1]>>
        diag2 == <<px[3] - px[2], py[3] - py[2]>>
    IN  diag1[1] * diag2[2] - diag1[2] * diag2[1]

cellVolumeVerticalPillars(p, gs, i, j, k) ==
    LET chk == checkLogicalCoords(gs, i, j, k)
        pillc == getFloatingPointValue(p, "COORD")
        z == getFloatingPointValue(p, "ZCORN")
        numxpill == gs[1] + 1
        pix == i + j * numxpill
        px == <<At(pillc, 6 * pix), At(pillc, 6 * (pix + 1)),
                At(pillc, 6 * (pix + numxpill)), At(pillc, 6 * (pix + numxpill + 1))>>
        py == <<At(pillc, 6 * pix + 1), At(pillc, 6 * (pix + 1) + 1),
                At(pillc, 6 * (pix + numxpill) + 1),
                At(pillc, 6 * (pix + numxpill + 1) + 1)>>
        area2 == CrossDiagonals(px, py)
        offs == cellVolumeOffsets(gs, i, j, k)
        cellz == ReadAll(z, offs)
        diffz == <<cellz[5] - cellz[1], cellz[6] - cellz[2],
                   cellz[7] - cellz[3], cellz[8] - cellz[4]>>
        sumdiff == diffz[1] + diffz[2] + diffz[3] + diffz[4]
    IN  IF chk # "" THEN Thrown(chk, <<>>, <<i, j, k>>)
        ELSE IF WrongCoordSize(gs, pillc) THEN Thrown("WrongCoordSize", <<"COORD">>, <<i, j, k>>)
        ELSE IF WrongZcornSize(gs, z)
             THEN Thrown("WrongZcornSize", <<"COORD", "ZCORN">>, <<i, j, k>>)
        ELSE Result("ok", <<sumdiff * area2>>, <<"COORD", "ZCORN">>, offs, <<i, j, k>>)

(***************************************************************************)
(* cellDips(i, j, k).  Value: <<xn, xd, yn, yd>>, the dips xn/xd, yn/yd.   *)
(***************************************************************************)
cellDips(p, gs, i, j, k) ==
    LET chk == checkLogicalCoords(gs, i, j, k)
        pillc == getFloatingPointValue(p, "COORD")
        z == getFloatingPointValue(p, "ZCORN")
        zv == cellZvals(p, gs, i, j, k)
        cellz == zv.value
        numxpill == gs[1] + 1
        pix == i + j * numxpill
        cell_xlength == At(pillc, 6 * (pix + 1)) - At(pillc, 6 * pix)
        xrise == <<cellz[2] - cellz[1], cellz[4] - cellz[3],
                   cellz[6] - cellz[5], cellz[8] - cellz[7]>>
        cell_ylength == At(pillc, 6 * (pix + numxpill) + 1) - At(pillc, 6 * pix + 1)
        yrise == <<cellz[3] - cellz[1], cellz[4] - cellz[2],
                   cellz[7] - cellz[5], cellz[8] - cellz[6]>>
    IN  IF chk # "" THEN Thrown(chk, <<>>, <<i, j, k>>)
        ELSE IF WrongCoordSize(gs, pillc) THEN Thrown("WrongCoordSize", <<"COORD">>, <<i, j, k>>)
        ELSE IF WrongZcornSize(gs, z)
             THEN Thrown("WrongZcornSize", <<"COORD", "ZCORN">>, <<i, j, k>>)
        ELSE Result("ok",
                    <<xrise[1] + xrise[2] + xrise[3] + xrise[4], 4 * cell_xlength,
                      yrise[1] + yrise[2] + yrise[3] + yrise[4], 4 * cell_ylength>>,
                    <<"COORD", "ZCORN">> \o zv.fetched, zv.offs, <<i, j, k>>)

(***************************************************************************)
(* The linear-index overloads delegate through cellIdxToLogicalCoords.     *)
(***************************************************************************)
cellDipsIdx(p, gs, cell_idx) ==
    IF ~IdxConversionDefined(gs) THEN Result("UB", <<>>, <<>>, <<>>, <<>>)
    ELSE LET idxs == cellIdxToLogicalCoords(gs, cell_idx)
         IN  cellDips(p, gs, idxs[1], idxs[2], idxs[3])

cellVolumeVerticalPillarsIdx(p, gs, cell_idx) ==
    IF ~IdxConversionDefined(gs) THEN Result("UB", <<>>, <<>>, <<>>, <<>>)
    ELSE LET idxs == cellIdxToLogicalCoords(gs, cell_idx)
         IN  cellVolumeVerticalPillars(p, gs, idxs[1], idxs[2], idxs[3])

(***************************************************************************)
(* getGridLimits.  lim is <<xmin, xmax, ymin, ymax>>.                      *)
(***************************************************************************)
Larger(a, b) == IF a > b THEN a ELSE b
Smaller(a, b) == IF a < b THEN a ELSE b

\* one iteration of the loop over the pillars
PillarStepTopOnly(coord, pillarindex, lim) ==
    LET x0 == At(coord, pillarindex * 6 + 0)
        y0 == At(coord, pillarindex * 6 + 1)
    IN  <<Smaller(x0, lim[1]), Larger(x0, lim[2]),
          Smaller(y0, lim[3]), Larger(y0, lim[4])>>

PillarStep(coord, pillarindex, lim) ==
    LET x0 == At(coord, pillarindex * 6 + 0)
        y0 == At(coord, pillarindex * 6 + 1)
        x3 == At(coord, pillarindex * 6 + 3)
        y4 == At(coord, pillarindex * 6 + 4)
        xmax0 == Larger(x0, lim[2])
        xmin0 == Smaller(x0, lim[1])
        ymax1 == Larger(y0, lim[4])
        ymin1 == Smaller(y0, lim[3])
    IN  <<Smaller(x3, xmin0), Larger(x3, xmax0),
          Smaller(y4, ymin1), Larger(y4, ymax1)>>

RECURSIVE ScanPillars(_, _, _, _)
ScanPillars(coord, pillarindex, pillars, lim) ==
    IF pillarindex < pillars
    THEN ScanPillars(coord, pillarindex + 1, pillars, PillarStep(coord, pillarindex, lim))
    ELSE lim

RECURSIVE min_element(_, _, _)
min_element(v, n, best) ==
    IF n > Len(v) THEN best
    ELSE min_element(v, n + 1, IF v[n] < best THEN v[n] ELSE best)

RECURSIVE max_element(_, _, _)
max_element(v, n, best) ==
    IF n > Len(v) THEN best
    ELSE max_element(v, n + 1, IF best < v[n] THEN v[n] ELSE best)

getGridLimits(p, gs) ==
    LET coord == getFloatingPointValue(p, "COORD")
        zcorn == getFloatingPointValue(p, "ZCORN")
        pillars == (gs[1] + 1) * (gs[2] + 1)
        lim == ScanPillars(coord, 0, pillars, <<DBL_MAX, -DBL_MAX, DBL_MAX, -DBL_MAX>>)
    IN  IF ~(hasField(p, "COORD") /\ hasField(p, "ZCORN") /\ hasField(p, "SPECGRID"))
        THEN Thrown("NoSpecgrid", <<>>, <<>>)
        ELSE IF \/ \E q \in 0..(pillars - 1) : ~InRange(coord, q * 6 + 4)
                \/ Len(zcorn) = 0
             THEN Result("UB", <<>>, <<"COORD", "ZCORN">>, <<>>, <<>>)
        ELSE Result("ok",
                    <<lim[1], lim[2], lim[3], lim[4],
                      min_element(zcorn, 2, zcorn[1]), max_element(zcorn, 2, zcorn[1])>>,
                    <<"COORD", "ZCORN">>, <<>>, <<>>)

gridSize(gs) == Result("ok", gs, <<>>, <<>>, <<>>)

(***************************************************************************)
(* Data sources.  A grid of (nx, ny, nz) cells on a rectangular lattice of *)
(* pillars with spacing (dx, dy), layers dz thick; tilt bends the layer    *)
(* surfaces, pert moves one coordinate of one pillar, cdelta and zdelta    *)
(* change the lengths of COORD and ZCORN.                                  *)
(***************************************************************************)
AllFields == {"COORD", "ZCORN", "SPECGRID", "DIMENS"}
NoPert == [pillar |-> -1, slot |-> 0, shift |-> 0]
StepTriples == {<<1, 1, 1>>, <<2, 3, 5>>, <<3, 1, 2>>}
Shifts == {-7, 7}
CoordDeltas == {-7, -1, 0, 1}
ZcornDeltas == {-1, 0, 1}

GridCoordAt(n, steps, pert, o) ==
    LET pillars == (n[1] + 1) * (n[2] + 1)
        q == o \div 6
        slot == o % 6
        pi == q % (n[1] + 1)
        pj == q \div (n[1] + 1)
        base == CASE slot \in {0, 3} -> steps[1] * pi
                  [] slot \in {1, 4} -> steps[2] * pj
                  [] slot = 2 -> 0
                  [] OTHER -> steps[3] * n[3]
    IN  IF o >= 6 * pillars THEN 0
        ELSE IF pert.pillar = q /\ pert.slot = slot THEN base + pert.shift
        ELSE base

GridCoord(n, steps, pert, cdelta) ==
    [m \in 1..Max0(6 * ((n[1] + 1) * (n[2] + 1)) + cdelta) |->
        GridCoordAt(n, steps, pert, m - 1)]

GridZcornAt(n, steps, tilt, o) ==
    IF n[1] * n[2] <= 0 THEN 0
    ELSE LET s == o \div (4 * n[1] * n[2])
         IN  steps[3] * ((s + 1) \div 2) + tilt * o * o

GridZcorn(n, steps, tilt, zdelta) ==
    [m \in 1..Max0(8 * (n[1] * n[2] * n[3]) + zdelta) |->
        GridZcornAt(n, steps, tilt, m - 1)]

\* the arrays are sized for the dimensions the file states first
Source(fields, sg, dm, steps, tilt, pert, cdelta, zdelta) ==
    LET n == IF "SPECGRID" \in fields \/ "DIMENS" \notin fields THEN sg ELSE dm
    IN  [fields |-> fields,
         SPECGRID |-> IF "SPECGRID" \in fields THEN sg ELSE <<>>,
         DIMENS |-> IF "DIMENS" \in fields THEN dm ELSE <<>>,
         COORD |-> IF "COORD" \in fields THEN GridCoord(n, steps, pert, cdelta) ELSE <<>>,
         ZCORN |-> IF "ZCORN" \in fields THEN GridZcorn(n, steps, tilt, zdelta) ELSE <<>>]

Reversed(t) == <<t[3], t[2], t[1]>>

\* any keywords present, any dimensions, DIMENS differing from SPECGRID
FilesAnyKeywords ==
    {Source(f, sg, Reversed(sg), <<1, 1, 1>>, 0, NoPert, 0, 0) :
        f \in SUBSET AllFields, sg \in Dims \X Dims \X Dims}

\* complete files of grids with positive dimensions
FilesGeometry ==
    {Source(AllFields, sg, sg, st, t, NoPert, 0, 0) :
        sg \in PosDims \X PosDims \X PosDims, st \in StepTriples, t \in 0..MaxTilt}

\* one pillar with its bottom x or y moved
FilesMovedBottom ==
    UNION {{Source(AllFields, sg, sg, <<2, 3, 5>>, 0,
                   [pillar |-> q, slot |-> sl, shift |-> sh], 0, 0) :
                q \in 0..((sg[1] + 1) * (sg[2] + 1) - 1), sl \in {3, 4}, sh \in Shifts} :
           sg \in PosDims \X PosDims \X {1}}

\* COORD or ZCORN of another length than the dimensions imply
FilesWrongLength ==
    {Source(AllFields, sg, sg, <<1, 1, 1>>, 1, NoPert, cd, zd) :
        sg \in PosDims \X PosDims \X PosDims, cd \in CoordDeltas, zd \in ZcornDeltas}

Files == FilesAnyKeywords \cup FilesGeometry \cup FilesMovedBottom \cup FilesWrongLength

NoCall == [op |-> "none", args |-> <<>>, outcome |-> "", value |-> <<>>,
           fetched |-> <<>>, offs |-> <<>>, ijk |-> <<>>]

Call(op, args, r) ==
    [op |-> op, args |-> args, outcome |-> r.outcome, value |-> r.value,
     fetched |-> r.fetched, offs |-> r.offs, ijk |-> r.ijk]

\* the outcomes of a call: one, unless the call has undefined behaviour
Outcomes(r) ==
    IF r.outcome = "UB" THEN {[r EXCEPT !.outcome = o] : o \in UBOutcomes} ELSE {r}

Init ==
    /\ parser \in Files
    /\ status = "none"
    /\ logical_gridsize = <<>>
    /\ res = NoCall

Construct ==
    /\ status = "none"
    /\ LET c == Ctor(parser)
       IN  /\ status' = IF c.outcome = "ok" THEN "ok" ELSE "failed"
           /\ logical_gridsize' = c.gs
           /\ res' = Call("construct", <<>>, Thrown(c.outcome, <<>>, <<>>))
    /\ UNCHANGED parser

\* a query is a synchronous call by the single caller, which holds the result
\* of its previous call until Return
Query(op, args, r) ==
    /\ status = "ok"
    /\ res = NoCall
    /\ \E o \in Outcomes(r) : res' = Call(op, args, o)
    /\ UNCHANGED <<parser, status, logical_gridsize>>

GridSize == Query("gridSize", <<>>, gridSize(logical_gridsize))

CellIdxToLogicalCoords ==
    \E n \in IdxArgs :
        Query("cellIdxToLogicalCoords", <<n>>,
              IF IdxConversionDefined(logical_gridsize)
              THEN Result("ok", cellIdxToLogicalCoords(logical_gridsize, n),
                          <<>>, <<>>, <<>>)
              ELSE Result("UB", <<>>, <<>>, <<>>, <<>>))

CellZvals ==
    \E i \in CoordArgs, j \in CoordArgs, k \in CoordArgs :
        Query("cellZvals", <<i, j, k>>, cellZvals(parser, logical_gridsize, i, j, k))

CellVolume ==
    \E i \in CoordArgs, j \in CoordArgs, k \in CoordArgs :
        Query("cellVolume", <<i, j, k>>,
              cellVolumeVerticalPillars(parser, logical_gridsize, i, j, k))

CellVolumeIdx ==
    \E n \in IdxArgs :
        Query("cellVolumeIdx", <<n>>,
              cellVolumeVerticalPillarsIdx(parser, logical_gridsize, n))

CellDips ==
    \E i \in CoordArgs, j \in CoordArgs, k \in CoordArgs :
        Query("cellDips", <<i, j, k>>, cellDips(parser, logical_gridsize, i, j, k))

CellDipsIdx ==
    \E n \in IdxArgs :
        Query("cellDipsIdx", <<n>>, cellDipsIdx(parser, logical_gridsize, n))

GetGridLimits == Query("getGridLimits", <<>>, getGridLimits(parser, logical_gridsize))

\* the caller is done with the result of its last call
Return ==
    /\ res # NoCall
    /\ res' = NoCall
    /\ UNCHANGED <<parser, status, logical_gridsize>>

Next ==
    \/ Construct
    \/ Return
    \/ GridSize
    \/ CellIdxToLogicalCoords
    \/ CellZvals
    \/ CellVolume
    \/ CellVolumeIdx
    \/ CellDips
    \/ CellDipsIdx
    \/ GetGridLimits

Spec == Init /\ [][Next]_vars

(***************************************************************************)
(* Vocabulary of the properties.                                           *)
(***************************************************************************)
Positive(gs) == gs[1] > 0 /\ gs[2] > 0 /\ gs[3] > 0

NumCells(gs) == gs[1] * gs[2] * gs[3]

NumPillars(gs) == (gs[1] + 1) * (gs[2] + 1)

ValidCoords(gs, t) ==
    /\ Len(t) = 3
    /\ 0 <= t[1] /\ t[1] < gs[1]
    /\ 0 <= t[2] /\ t[2] < gs[2]
    /\ 0 <= t[3] /\ t[3] < gs[3]

Cells(gs) == (0..(gs[1] - 1)) \X (0..(gs[2] - 1)) \X (0..(gs[3] - 1))

\* i fastest, then j, then k
LinearIndex(gs, t) == t[1] + gs[1] * t[2] + gs[1] * gs[2] * t[3]

RightSizes(p, gs) ==
    /\ Len(p.COORD) = 6 * NumPillars(gs)
    /\ Len(p.ZCORN) = 8 * NumCells(gs)

OutOfBoundsErrors == {"OutOfBounds1", "OutOfBounds2", "OutOfBounds3"}
SizeMismatchErrors == {"WrongCoordSize", "WrongZcornSize"}
ConfigurationErrors == {"MissingField", "NoDimensions"}

SetMin(S, none) == IF S = {} THEN none ELSE CHOOSE x \in S : \A y \in S : x <= y
SetMax(S, none) == IF S = {} THEN none ELSE CHOOSE x \in S : \A y \in S : y <= x

(***************************************************************************)
(* C1: for a grid with positive dimensions and a linear index n in         *)
(* [0, nx*ny*nz), cellIdxToLogicalCoords(n) is a triple within the grid,   *)
(* and no other linear index of the range gives the same triple.           *)
(***************************************************************************)
C1_IndexBijection ==
    (/\ status = "ok"
     /\ res.op = "cellIdxToLogicalCoords"
     /\ Positive(logical_gridsize)
     /\ res.args[1] \in 0..(NumCells(logical_gridsize) - 1))
    => /\ res.outcome = "ok"
       /\ ValidCoords(logical_gridsize, res.value)
       /\ \A m \in 0..(NumCells(logical_gridsize) - 1) :
            cellIdxToLogicalCoords(logical_gridsize, m) = res.value => m = res.args[1]

(***************************************************************************)
(* C2: with correctly sized COORD and ZCORN, the linear-index overloads of *)
(* cellVolumeVerticalPillars and cellDips called with                      *)
(* n = i + nx*j + nx*ny*k for a valid (i, j, k) succeed and return the     *)
(* result of the (i, j, k) overload.                                       *)
(***************************************************************************)
C2_OverloadsAgree ==
    (/\ status = "ok"
     /\ res.op \in {"cellVolumeIdx", "cellDipsIdx"}
     /\ Positive(logical_gridsize)
     /\ RightSizes(parser, logical_gridsize))
    => \A t \in Cells(logical_gridsize) :
         res.args = <<LinearIndex(logical_gridsize, t)>>
         => /\ res.outcome = "ok"
            /\ res.value =
                 IF res.op = "cellVolumeIdx"
                 THEN cellVolumeVerticalPillars(parser, logical_gridsize,
                                                t[1], t[2], t[3]).value
                 ELSE cellDips(parser, logical_gridsize, t[1], t[2], t[3]).value

(***************************************************************************)
(* C3: cellVolumeVerticalPillars, cellDips and cellZvals called, on a grid *)
(* with positive dimensions, with a coordinate outside the grid fail with an out-of-bounds error before any *)
(* array is fetched or indexed.                                            *)
(***************************************************************************)
C3_BoundsRejectedBeforeReads ==
    (/\ status = "ok"
     /\ res.op \in {"cellVolume", "cellDips", "cellZvals"}
     /\ Positive(logical_gridsize)
     /\ ~ValidCoords(logical_gridsize, res.args))
    => /\ res.outcome \in OutOfBoundsErrors
       /\ res.fetched = <<>>
       /\ res.offs = <<>>

(***************************************************************************)
(* C4: construction fails with a configuration error when COORD or ZCORN   *)
(* is missing, and when both are present but neither SPECGRID nor DIMENS   *)
(* is; otherwise it succeeds and the stored grid size is the SPECGRID      *)
(* dimensions when SPECGRID is present, the DIMENS triple when it is not.  *)
(***************************************************************************)
C4_Construction ==
    status # "none"
    => LET arrays == hasField(parser, "COORD") /\ hasField(parser, "ZCORN")
           sg == hasField(parser, "SPECGRID")
           dm == hasField(parser, "DIMENS")
       IN  /\ (~arrays \/ (~sg /\ ~dm)) => /\ status = "failed"
                                          /\ logical_gridsize = <<>>
           /\ (res.op = "construct" /\ status = "failed")
                => res.outcome \in ConfigurationErrors
           /\ (arrays /\ sg) => /\ status = "ok"
                                /\ logical_gridsize = parser.SPECGRID
           /\ (arrays /\ ~sg /\ dm) => /\ status = "ok"
                                       /\ logical_gridsize = parser.DIMENS

C4_Witness ==
    /\ status = "ok"
    /\ res.op = "construct"
    /\ hasField(parser, "SPECGRID") /\ hasField(parser, "DIMENS")
    /\ parser.SPECGRID # parser.DIMENS
    /\ logical_gridsize = parser.SPECGRID

(***************************************************************************)
(* C5: every constructed inspector has a grid size with all three          *)
(* components > 0 (construction fails on a zero or negative dimension).    *)
(***************************************************************************)
C5_GridSizePositive ==
    status = "ok" => Positive(logical_gridsize)

(***************************************************************************)
(* C6: a ZCORN one element short is found lazily.  For a file with         *)
(* positive dimensions, COORD of the right length and ZCORN of length      *)
(* 8*nx*ny*nz - 1, construction succeeds, and afterwards every             *)
(* cellVolumeVerticalPillars, cellDips and cellZvals call with valid       *)
(* (i, j, k) fails with the ZCORN size error and returns no value.         *)
(***************************************************************************)
FileDims(p) == IF hasField(p, "SPECGRID") THEN p.SPECGRID ELSE p.DIMENS

ZcornOneShort(p) ==
    /\ hasFields(p, {"COORD", "ZCORN"})
    /\ hasField(p, "SPECGRID") \/ hasField(p, "DIMENS")
    /\ Positive(FileDims(p))
    /\ Len(p.COORD) = 6 * NumPillars(FileDims(p))
    /\ Len(p.ZCORN) = 8 * NumCells(FileDims(p)) - 1

C6_ZcornMismatchLazy ==
    ZcornOneShort(parser)
    => /\ status # "failed"
       /\ (/\ status = "ok"
           /\ res.op \in {"cellVolume", "cellDips", "cellZvals"}
           /\ ValidCoords(logical_gridsize, res.args))
          => /\ res.outcome = "WrongZcornSize"
             /\ res.value = <<>>
             /\ res.offs = <<>>

C6_Witness ==
    /\ ZcornOneShort(parser)
    /\ status = "ok"
    /\ res.op = "cellDips"
    /\ ValidCoords(logical_gridsize, res.args)
    /\ res.args # <<0, 0, 0>>
    /\ res.outcome = "WrongZcornSize"

(***************************************************************************)
(* C7: on a grid with positive dimensions, every query that fetches COORD  *)
(* or ZCORN, getGridLimits included, fails with a size-mismatch error when *)
(* the length of a fetched array is not the expected one.                  *)
(***************************************************************************)
FetchedWrongSize ==
    \/ \E n \in 1..Len(res.fetched) :
         res.fetched[n] = "COORD" /\ WrongCoordSize(logical_gridsize, parser.COORD)
    \/ \E n \in 1..Len(res.fetched) :
         res.fetched[n] = "ZCORN" /\ WrongZcornSize(logical_gridsize, parser.ZCORN)

C7_SizesCheckedOnEveryUse ==
    (/\ status = "ok"
     /\ res.op \notin {"none", "construct"}
     /\ Positive(logical_gridsize)
     /\ FetchedWrongSize)
    => res.outcome \in SizeMismatchErrors

(***************************************************************************)
(* C8.  As stated: the x and y extents returned by getGridLimits are the   *)
(* min and max over the top (x, y) of the pillars only.                    *)
(***************************************************************************)
PillarValues(p, gs, slots) ==
    {At(p.COORD, 6 * q + sl) : q \in 0..(NumPillars(gs) - 1), sl \in slots}

C8_ExtentsFromTopsOnly ==
    (status = "ok" /\ res.op = "getGridLimits" /\ res.outcome = "ok")
    => /\ res.value[1] = SetMin(PillarValues(parser, logical_gridsize, {0}), DBL_MAX)
       /\ res.value[2] = SetMax(PillarValues(parser, logical_gridsize, {0}), -DBL_MAX)
       /\ res.value[3] = SetMin(PillarValues(parser, logical_gridsize, {1}), DBL_MAX)
       /\ res.value[4] = SetMax(PillarValues(parser, logical_gridsize, {1}), -DBL_MAX)

(***************************************************************************)
(* C8, amended: the x and y extents returned by getGridLimits are the min  *)
(* and max over both the top and the bottom (x, y) of the (nx+1)*(ny+1)    *)
(* pillars (COORD offsets 0, 3 for x and 1, 4 for y of each 6-tuple); the  *)
(* z values of COORD (offsets 2, 5) do not enter.                          *)
(***************************************************************************)
C8_ExtentsFromTopsAndBottoms ==
    (status = "ok" /\ res.op = "getGridLimits" /\ res.outcome = "ok")
    => /\ res.value[1] = SetMin(PillarValues(parser, logical_gridsize, {0, 3}), DBL_MAX)
       /\ res.value[2] = SetMax(PillarValues(parser, logical_gridsize, {0, 3}), -DBL_MAX)
       /\ res.value[3] = SetMin(PillarValues(parser, logical_gridsize, {1, 4}), DBL_MAX)
       /\ res.value[4] = SetMax(PillarValues(parser, logical_gridsize, {1, 4}), -DBL_MAX)

\* a bottom y above every top y is the returned ymax
C8_Witness ==
    /\ status = "ok" /\ res.op = "getGridLimits" /\ res.outcome = "ok"
    /\ Positive(logical_gridsize)
    /\ RightSizes(parser, logical_gridsize)
    /\ res.value[4] > SetMax(PillarValues(parser, logical_gridsize, {1}), -DBL_MAX)
    /\ res.value[4] \in PillarValues(parser, logical_gridsize, {4})

(***************************************************************************)
(* C9: on a regular box grid (pillar tops on a rectangular lattice with    *)
(* spacing dx, dy; ZCORN constant on each layer surface and increasing by  *)
(* dz per layer) cellVolumeVerticalPillars(i, j, k) is dx*dy*dz for every  *)
(* valid cell, and the cross product of the diagonals is 2*dx*dy > 0.      *)
(***************************************************************************)
BoxDx(p, gs) == At(p.COORD, 6) - At(p.COORD, 0)
BoxDy(p, gs) == At(p.COORD, 6 * (gs[1] + 1) + 1) - At(p.COORD, 1)
BoxDz(p, gs) == At(p.ZCORN, 4 * gs[1] * gs[2]) - At(p.ZCORN, 0)

IsBoxGrid(p, gs) ==
    /\ Positive(gs)
    /\ RightSizes(p, gs)
    /\ BoxDx(p, gs) > 0 /\ BoxDy(p, gs) > 0 /\ BoxDz(p, gs) > 0
    /\ \A pi \in 0..gs[1], pj \in 0..gs[2] :
         LET q == pi + pj * (gs[1] + 1)
         IN  /\ At(p.COORD, 6 * q) = At(p.COORD, 0) + BoxDx(p, gs) * pi
             /\ At(p.COORD, 6 * q + 1) = At(p.COORD, 1) + BoxDy(p, gs) * pj
    \* surface s of ZCORN is the top (s even) or bottom (s odd) of layer s \div 2
    /\ \A o \in 0..(Len(p.ZCORN) - 1) :
         LET s == o \div (4 * gs[1] * gs[2])
         IN  At(p.ZCORN, o) = At(p.ZCORN, 0) + BoxDz(p, gs) * ((s + 1) \div 2)

C9_BoxVolume ==
    (/\ status = "ok"
     /\ res.op = "cellVolume"
     /\ ValidCoords(logical_gridsize, res.args)
     /\ IsBoxGrid(parser, logical_gridsize))
    => LET dx == BoxDx(parser, logical_gridsize)
           dy == BoxDy(parser, logical_gridsize)
           dz == BoxDz(parser, logical_gridsize)
           x == At(parser.COORD, 0) + dx * res.args[1]
           y == At(parser.COORD, 1) + dy * res.args[2]
       IN  /\ res.outcome = "ok"
           \* the value is 8 times the volume
           /\ res.value = <<8 * (dx * dy * dz)>>
           /\ CrossDiagonals(<<x, x + dx, x, x + dx>>, <<y, y, y + dy, y + dy>>)
                = 2 * (dx * dy)

C9_Witness ==
    /\ status = "ok"
    /\ res.op = "cellVolume"
    /\ res.outcome = "ok"
    /\ IsBoxGrid(parser, logical_gridsize)
    /\ res.args = <<logical_gridsize[1] - 1, logical_gridsize[2] - 1, logical_gridsize[3] - 1>>
    /\ res.args # <<0, 0, 0>>
    /\ BoxDx(parser, logical_gridsize) = 2
    /\ BoxDy(parser, logical_gridsize) = 3
    /\ BoxDz(parser, logical_gridsize) = 5
    /\ res.value = <<240>>

(***************************************************************************)
(* C10: the corner-depth addressing partitions ZCORN.  On a grid with      *)
(* positive dimensions the 8 offsets cellZvals reads for a valid (i, j, k) *)
(* are ix + {0, 1, 2nx, 2nx+1, 4nx*ny, 4nx*ny+1, 4nx*ny+2nx,               *)
(* 4nx*ny+2nx+1} with ix = 2*(i + 2nx*j + 4nx*ny*k), lie in                *)
(* [0, 8*nx*ny*nz), are 8 different offsets, and none of them is an offset *)
(* of another cell; over all cells they are all 8*nx*ny*nz offsets; and    *)
(* cellVolumeVerticalPillars reads the same 8 offsets in the same order.   *)
(***************************************************************************)
OffsetSet(offs) == {offs[n] : n \in 1..Len(offs)}

StatedOffsets(gs, t) ==
    LET nx == gs[1]
        ny == gs[2]
        ix == 2 * (t[1] + 2 * nx * t[2] + 4 * nx * ny * t[3])
    IN  <<ix, ix + 1, ix + 2 * nx, ix + 2 * nx + 1,
          ix + 4 * nx * ny, ix + 4 * nx * ny + 1,
          ix + 4 * nx * ny + 2 * nx, ix + 4 * nx * ny + 2 * nx + 1>>

C10_ZcornPartition ==
    (status = "ok" /\ Positive(logical_gridsize)
     /\ RightSizes(parser, logical_gridsize))
    => LET gs == logical_gridsize
       IN  /\ (res.op = "cellZvals" /\ ValidCoords(gs, res.args))
                => /\ res.outcome = "ok"
                   /\ res.offs = StatedOffsets(gs, res.args)
                   /\ OffsetSet(res.offs) \subseteq 0..(8 * NumCells(gs) - 1)
                   /\ Cardinality(OffsetSet(res.offs)) = 8
                   /\ \A t \in Cells(gs) :
                        t # res.args =>
                          OffsetSet(cellZvalsOffsets(gs, t[1], t[2], t[3]))
                             \cap OffsetSet(res.offs) = {}
           /\ (res.op = "cellVolume" /\ ValidCoords(gs, res.args))
                => /\ res.outcome = "ok"
                   /\ res.offs = cellZvalsOffsets(gs, res.args[1], res.args[2], res.args[3])
           /\ res.op = "construct"
                => UNION {OffsetSet(cellZvalsOffsets(gs, t[1], t[2], t[3])) : t \in Cells(gs)}
                     = 0..(8 * NumCells(gs) - 1)

C10_Witness ==
    /\ status = "ok"
    /\ res.op = "cellZvals"
    /\ res.outcome = "ok"
    /\ logical_gridsize[1] # logical_gridsize[2]
    /\ NumCells(logical_gridsize) > 2
    /\ res.args = <<logical_gridsize[1] - 1, logical_gridsize[2] - 1, logical_gridsize[3] - 1>>
    /\ res.offs[8] = 8 * NumCells(logical_gridsize) - 1

====
